---- MODULE Spec2Model ----
(***************************************************************************)
(* State-machine model of the Matcha cashier bot (src/bot.py).             *)
(*                                                                         *)
(* The state is the four module-level collections of bot.py (SALES, carts, *)
(* user_names, user_states) plus the per-user context.user_data bag of the *)
(* telegram framework, and `out`, the last message or alert a handler      *)
(* produced.  Every handler is one action.  Texts are sequences of         *)
(* one-character strings so that strip(), len() and the numeric parser     *)
(* are computed as the code computes them.  A Python dict that the code    *)
(* iterates (a cart, a transaction's items) is an insertion-ordered        *)
(* sequence of <<key, value>> pairs; the dicts keyed by user id are never  *)
(* iterated and are functions whose DOMAIN is the set of keys present.     *)
(* The transaction's timestamp is not modelled.                            *)
(***************************************************************************)
EXTENDS Integers, Sequences, FiniteSets, TLC

\* ------------------------------------------------------------------ bounds
\* Number of MENU entries (in source order) whose buttons are clicked.
NumItems == 1
\* inc events are issued only while the item's quantity is below MaxQty.
MaxQty == 2
\* Payment events are issued only while the ledger holds fewer than MaxSales.
MaxSales == 1

\* ----------------------------------------------------------- configuration
\* bot.py ships with empty allow-lists that the deployment fills in; the
\* model instantiates them with one admin and one cashier.  User 3 is in
\* neither list.
ADMIN_IDS == {1}
USER_IDS == {2}
Users == {1, 2, 3}

MenuKeys ==
  << "Matcha OG", "Strawberry Matcha", "Matcha Cookies", "Choco Matcha",
     "Matcha Cloud", "Honey Matcha", "Coconut Matcha", "Orange Matcha" >>

MenuPrices == << 12000, 16000, 16000, 16000, 14000, 15000, 15000, 14000 >>

MENU == [k \in {MenuKeys[i] : i \in 1..Len(MenuKeys)} |->
           MenuPrices[CHOOSE i \in 1..Len(MenuKeys) : MenuKeys[i] = k]]

STATE_WAITING_NAME == "waiting_name"
STATE_MENU == "menu"
STATE_SELECTING_PAYMENT == "selecting_payment"
STATE_WAITING_CASH == "waiting_cash"

\* The default customer name of user_names.get(uid, "Tidak diketahui").
Unknown == <<"T","i","d","a","k"," ","d","i","k","e","t","a","h","u","i">>

\* ------------------------------------------------------------ Python dicts
\* dict keyed by user id: a function, DOMAIN = keys present.
EmptyMap == [x \in {} |-> 0]
MapSet(m, k, v) == [x \in (DOMAIN m) \cup {k} |-> IF x = k THEN v ELSE m[x]]
MapPop(m, k) == [x \in (DOMAIN m) \ {k} |-> m[x]]
MapGet(m, k, default) == IF k \in DOMAIN m THEN m[k] ELSE default

\* insertion-ordered dict: a sequence of <<key, value>> pairs, keys distinct.
DictKeys(d) == {d[i][1] : i \in 1..Len(d)}
DictGet(d, k, default) ==
  IF k \in DictKeys(d) THEN d[CHOOSE i \in 1..Len(d) : d[i][1] = k][2] ELSE default
DictSet(d, k, v) ==
  IF k \in DictKeys(d)
    THEN [i \in 1..Len(d) |-> IF d[i][1] = k THEN <<k, v>> ELSE d[i]]
    ELSE Append(d, <<k, v>>)
DictPop(d, k) == SelectSeq(d, LAMBDA p : p[1] # k)
\* dict equality of Python: same keys with the same values, order ignored.
DictEq(a, b) == {a[i] : i \in 1..Len(a)} = {b[i] : i \in 1..Len(b)}

\* ------------------------------------------------------------------- texts
Digits == {"0","1","2","3","4","5","6","7","8","9"}

DigitVal(c) ==
  CASE c = "0" -> 0 [] c = "1" -> 1 [] c = "2" -> 2 [] c = "3" -> 3
    [] c = "4" -> 4 [] c = "5" -> 5 [] c = "6" -> 6 [] c = "7" -> 7
    [] c = "8" -> 8 [] c = "9" -> 9

\* str.strip(): leading and trailing blanks removed.
RECURSIVE LStrip(_)
LStrip(s) == IF s # <<>> /\ Head(s) = " " THEN LStrip(Tail(s)) ELSE s

RECURSIVE RStrip(_)
RStrip(s) ==
  IF s # <<>> /\ s[Len(s)] = " " THEN RStrip(SubSeq(s, 1, Len(s) - 1)) ELSE s

Strip(s) == RStrip(LStrip(s))

\* str.replace(c, "") for a one-character c.
RemoveChar(s, c) == SelectSeq(s, LAMBDA x : x # c)

\* str.replace("Rp", ""): every non-overlapping occurrence, left to right.
RECURSIVE RemoveRp(_)
RemoveRp(s) ==
  IF Len(s) < 2 THEN s
  ELSE IF s[1] = "R" /\ s[2] = "p" THEN RemoveRp(SubSeq(s, 3, Len(s)))
  ELSE <<s[1]>> \o RemoveRp(Tail(s))

\* str.isdigit() on the characters the model uses.
IsDigit(s) == s # <<>> /\ \A i \in 1..Len(s) : s[i] \in Digits

RECURSIVE ToInt(_)
ToInt(s) == IF s = <<>> THEN 0
            ELSE 10 * ToInt(SubSeq(s, 1, Len(s) - 1)) + DigitVal(s[Len(s)])

\* The value no parse returns (Python's None).
None == -1

CleanText(text) ==
  RemoveRp(RemoveChar(RemoveChar(RemoveChar(text, "."), ","), " "))

clean_numeric_input(text) ==
  IF IsDigit(CleanText(text)) /\ Len(CleanText(text)) <= 10
    THEN ToInt(CleanText(text))
    ELSE None

\* ------------------------------------------------------------------- utils
\* is_authorized without the membership test.
is_authorized_Everyone(uid) == TRUE

is_authorized(uid) == uid \in ADMIN_IDS \/ uid \in USER_IDS

\* is_admin testing both allow-lists.
is_admin_AnyAuthorized(uid) == uid \in ADMIN_IDS \/ uid \in USER_IDS

is_admin(uid) == uid \in ADMIN_IDS

RECURSIVE get_cart_total(_)
get_cart_total(cart) ==
  IF cart = <<>> THEN 0
  ELSE (IF Head(cart)[1] \in DOMAIN MENU
          THEN MENU[Head(cart)[1]] * Head(cart)[2] ELSE 0)
       + get_cart_total(Tail(cart))

\* ------------------------------------------------------------------- state
VARIABLES
  SALES,        \* the ledger: sequence of transactions
  carts,        \* defaultdict(dict): user id -> cart
  user_names,   \* dict: user id -> customer name
  user_states,  \* dict: user id -> STATE_* tag
  user_data,    \* context.user_data of each user: dict with the key "total"
  out,          \* the last message or alert sent: [uid, kind, val]
  delivered,    \* whether the last completed send or edit succeeded
  inflight,     \* dict: user whose handler is suspended in its send or
                \* edit -> the message being sent
  bot           \* run_bot_with_retry: position, loop variable, tallies

vars == << SALES, carts, user_names, user_states, user_data, out,
           delivered, inflight, bot >>

\* carts[uid] on the defaultdict: a missing key is created with an empty cart.
Touch(c, uid) == IF uid \in DOMAIN c THEN c ELSE MapSet(c, uid, <<>>)

\* `if not total`: None and 0 are both falsy.
Falsy(x) == x = None \/ x = 0

Msg(uid, kind, val) == [uid |-> uid, kind |-> kind, val |-> val]

\* The transport loop once polling runs (run_bot_with_retry is modelled with
\* the retry specifications below).
BotRunning == [pc |-> "running", attempt |-> 0, started |-> 1, waited |-> 0,
               app |-> TRUE, stage |-> "running", error |-> "none",
               after |-> "none"]

Init ==
  /\ SALES = <<>>
  /\ carts = EmptyMap
  /\ user_names = EmptyMap
  /\ user_states = EmptyMap
  /\ user_data = [u \in Users |-> EmptyMap]
  /\ out = Msg(0, "none", 0)
  /\ delivered = TRUE
  /\ inflight = EmptyMap
  /\ bot = BotRunning

\* ---------------------------------------------------------------- commands
cmd_start(uid) ==
  IF ~is_authorized(uid)
    THEN /\ out' = Msg(uid, "denied", 0)
         /\ UNCHANGED << SALES, carts, user_names, user_states, user_data >>
    ELSE /\ user_states' = MapSet(user_states, uid, STATE_WAITING_NAME)
         /\ carts' = MapSet(carts, uid, <<>>)
         /\ user_data' = [user_data EXCEPT ![uid] = EmptyMap]
         /\ out' = Msg(uid, "welcome", 0)
         /\ UNCHANGED << SALES, user_names >>

cmd_admin(uid) ==
  /\ out' = IF ~is_admin(uid) THEN Msg(uid, "denied", 0)
                              ELSE Msg(uid, "admin_panel", 0)
  /\ UNCHANGED << SALES, carts, user_names, user_states, user_data >>

\* -------------------------------------------------------------- finalizing
\* save_transaction inserting the transaction at the front of the ledger.
save_transaction_InsertFirst(c, uid, customer_name, items, total, method) ==
  /\ SALES' = << [ user_id |-> uid,
                   customer_name |-> customer_name,
                   items |-> items,
                   total |-> total,
                   payment_method |-> method ] >> \o SALES
  /\ carts' = MapSet(c, uid, <<>>)
  /\ user_states' = MapSet(user_states, uid, STATE_MENU)

\* save_transaction that appends and leaves the cart for later.
save_transaction_ClearLater(c, uid, customer_name, items, total, method) ==
  /\ SALES' = Append(SALES, [ user_id |-> uid,
                              customer_name |-> customer_name,
                              items |-> items,
                              total |-> total,
                              payment_method |-> method ])
  /\ carts' = c
  /\ user_states' = MapSet(user_states, uid, STATE_MENU)

save_transaction(c, uid, customer_name, items, total, method) ==
  /\ SALES' = Append(SALES, [ user_id |-> uid,
                              customer_name |-> customer_name,
                              items |-> items,
                              total |-> total,
                              payment_method |-> method ])
  /\ carts' = MapSet(c, uid, <<>>)
  /\ user_states' = MapSet(user_states, uid, STATE_MENU)

\* process_cash_payment with the operands of the change swapped.
process_cash_payment_SwappedChange(uid, cash_amount, total) ==
  /\ save_transaction(Touch(carts, uid), uid,
                      MapGet(user_names, uid, Unknown),
                      Touch(carts, uid)[uid], total, "Cash")
  /\ out' = Msg(uid, "receipt_cash", total - cash_amount)
  /\ UNCHANGED << user_names, user_data >>

process_cash_payment(uid, cash_amount, total) ==
  /\ save_transaction(Touch(carts, uid), uid,
                      MapGet(user_names, uid, Unknown),
                      Touch(carts, uid)[uid], total, "Cash")
  /\ out' = Msg(uid, "receipt_cash", cash_amount - total)
  /\ UNCHANGED << user_names, user_data >>

\* ------------------------------------------------------------------- texts
\* handle_customer_name_input refusing a name of exactly 50 characters.
handle_customer_name_input_Below50(uid, name) ==
  IF name = <<>> \/ Len(Strip(name)) < 2
    THEN /\ out' = Msg(uid, "name_too_short", 0)
         /\ UNCHANGED << SALES, carts, user_names, user_states, user_data >>
  ELSE IF Len(name) >= 50
    THEN /\ out' = Msg(uid, "name_too_long", 0)
         /\ UNCHANGED << SALES, carts, user_names, user_states, user_data >>
  ELSE /\ user_names' = MapSet(user_names, uid, Strip(name))
       /\ user_states' = MapSet(user_states, uid, STATE_MENU)
       /\ out' = Msg(uid, "menu", 0)
       /\ UNCHANGED << SALES, carts, user_data >>

handle_customer_name_input(uid, name) ==
  IF name = <<>> \/ Len(Strip(name)) < 2
    THEN /\ out' = Msg(uid, "name_too_short", 0)
         /\ UNCHANGED << SALES, carts, user_names, user_states, user_data >>
  ELSE IF Len(name) > 50
    THEN /\ out' = Msg(uid, "name_too_long", 0)
         /\ UNCHANGED << SALES, carts, user_names, user_states, user_data >>
  ELSE /\ user_names' = MapSet(user_names, uid, Strip(name))
       /\ user_states' = MapSet(user_states, uid, STATE_MENU)
       /\ out' = Msg(uid, "menu", 0)
       /\ UNCHANGED << SALES, carts, user_data >>

\* handle_cash_payment_input without the `cash_amount < total` branch.
handle_cash_payment_input_NoShortage(uid, text) ==
  LET total == MapGet(user_data[uid], "total", None)
      cash_amount == clean_numeric_input(text)
  IN  IF Falsy(total)
        THEN /\ out' = Msg(uid, "data_missing", 0)
             /\ UNCHANGED << SALES, carts, user_names, user_states, user_data >>
      ELSE IF cash_amount = None
        THEN /\ out' = Msg(uid, "format_invalid", 0)
             /\ UNCHANGED << SALES, carts, user_names, user_states, user_data >>
      ELSE process_cash_payment(uid, cash_amount, total)

handle_cash_payment_input(uid, text) ==
  LET total == MapGet(user_data[uid], "total", None)
      cash_amount == clean_numeric_input(text)
  IN  IF Falsy(total)
        THEN /\ out' = Msg(uid, "data_missing", 0)
             /\ UNCHANGED << SALES, carts, user_names, user_states, user_data >>
      ELSE IF cash_amount = None
        THEN /\ out' = Msg(uid, "format_invalid", 0)
             /\ UNCHANGED << SALES, carts, user_names, user_states, user_data >>
      ELSE IF cash_amount < total
        THEN /\ out' = Msg(uid, "shortage", total - cash_amount)
             /\ UNCHANGED << SALES, carts, user_names, user_states, user_data >>
      ELSE process_cash_payment(uid, cash_amount, total)

\* handle_text_input that takes every text outside the cash prompt as a name.
handle_text_input_NameAnywhere(uid, raw) ==
  LET text == Strip(raw)
      state == MapGet(user_states, uid, "absent")
  IN  IF ~is_authorized(uid)
        THEN /\ out' = Msg(uid, "none", 0)
             /\ UNCHANGED << SALES, carts, user_names, user_states, user_data >>
      ELSE IF state = STATE_WAITING_CASH
        THEN handle_cash_payment_input(uid, text)
      ELSE handle_customer_name_input(uid, text)

handle_text_input(uid, raw) ==
  LET text == Strip(raw)
      state == MapGet(user_states, uid, "absent")
  IN  IF ~is_authorized(uid)
        THEN /\ out' = Msg(uid, "none", 0)
             /\ UNCHANGED << SALES, carts, user_names, user_states, user_data >>
      ELSE IF state = STATE_WAITING_NAME
        THEN handle_customer_name_input(uid, text)
      ELSE IF state = STATE_WAITING_CASH
        THEN handle_cash_payment_input(uid, text)
      ELSE /\ out' = Msg(uid, "hint", 0)
           /\ UNCHANGED << SALES, carts, user_names, user_states, user_data >>

\* ----------------------------------------------------------------- buttons
Quiet == UNCHANGED << SALES, carts, user_names, user_states, user_data >>

handle_item_selection(uid, item) ==
  IF item \notin DOMAIN MENU
    THEN out' = Msg(uid, "item_unavailable", 0) /\ Quiet
    ELSE \* carts[uid].setdefault(item, 0)
         /\ carts' = MapSet(carts, uid,
                        IF item \in DictKeys(Touch(carts, uid)[uid])
                          THEN Touch(carts, uid)[uid]
                          ELSE DictSet(Touch(carts, uid)[uid], item, 0))
         /\ out' = Msg(uid, "item_detail", 0)
         /\ UNCHANGED << SALES, user_names, user_states, user_data >>

\* The quantity an inc or dec button gives an item that has old_qty.
new_qty(old_qty, action) ==
  IF action = "inc" THEN old_qty + 1
  ELSE IF action = "dec" /\ old_qty > 0 THEN old_qty - 1
  ELSE old_qty

\* quantity_change that decrements whatever the quantity is and stores
\* every changed quantity.
quantity_change_Unguarded(cart, action, item) ==
  LET old_qty == DictGet(cart, item, 0)
      qty == IF action = "inc" THEN old_qty + 1
             ELSE IF action = "dec" THEN old_qty - 1
             ELSE old_qty
  IN  IF qty # old_qty THEN DictSet(cart, item, qty) ELSE cart

\* The user's cart after an inc or dec button of a menu item.
quantity_change(cart, action, item) ==
  LET old_qty == DictGet(cart, item, 0)
      qty == new_qty(old_qty, action)
  IN  IF qty # old_qty
        THEN IF qty > 0 THEN DictSet(cart, item, qty)
                        ELSE DictPop(cart, item)
        ELSE cart

handle_quantity_change(uid, action, item) ==
  IF item \notin DOMAIN MENU
    THEN out' = Msg(uid, "item_unavailable", 0) /\ Quiet
    ELSE LET c == Touch(carts, uid)
             old_qty == DictGet(c[uid], item, 0)
         IN  /\ carts' = MapSet(c, uid, quantity_change(c[uid], action, item))
             /\ out' = IF new_qty(old_qty, action) # old_qty
                         THEN Msg(uid, "item_detail", 0)
                         ELSE Msg(uid, "ack", 0)
             /\ UNCHANGED << SALES, user_names, user_states, user_data >>

handle_checkout(uid) ==
  LET cart == MapGet(carts, uid, <<>>)
  IN  IF cart = <<>>
        THEN out' = Msg(uid, "cart_empty", 0) /\ Quiet
        ELSE /\ user_data' = [user_data EXCEPT
                                ![uid] = MapSet(@, "total", get_cart_total(cart))]
             /\ user_states' = MapSet(user_states, uid, STATE_SELECTING_PAYMENT)
             /\ out' = Msg(uid, "checkout", get_cart_total(cart))
             /\ UNCHANGED << SALES, carts, user_names >>

handle_payment_method(uid, method) ==
  LET total == MapGet(user_data[uid], "total", None)
  IN  IF Falsy(total)
        THEN out' = Msg(uid, "data_missing", 0) /\ Quiet
      ELSE IF method = "cash"
        THEN /\ user_states' = MapSet(user_states, uid, STATE_WAITING_CASH)
             /\ out' = Msg(uid, "cash_prompt", 0)
             /\ UNCHANGED << SALES, carts, user_names, user_data >>
      ELSE IF method = "qris"
        THEN out' = Msg(uid, "qris_prompt", 0) /\ Quiet
      ELSE out' = Msg(uid, "none", 0) /\ Quiet

handle_qris_completion(uid) ==
  LET total == MapGet(user_data[uid], "total", None)
  IN  IF Falsy(total)
        THEN out' = Msg(uid, "data_missing", 0) /\ Quiet
        ELSE /\ save_transaction(Touch(carts, uid), uid,
                                 MapGet(user_names, uid, Unknown),
                                 Touch(carts, uid)[uid], total, "QRIS")
             /\ out' = Msg(uid, "receipt_qris", 0)
             /\ UNCHANGED << user_names, user_data >>

\* handle_restart that starts every user over.
handle_restart_Everyone(uid) ==
  /\ user_names' = EmptyMap
  /\ carts' = [u \in DOMAIN carts \cup {uid} |-> <<>>]
  /\ user_data' = [u \in Users |-> EmptyMap]
  /\ user_states' = [u \in DOMAIN user_states \cup {uid} |-> STATE_WAITING_NAME]
  /\ out' = Msg(uid, "restarted", 0)
  /\ UNCHANGED SALES

handle_restart(uid) ==
  /\ user_names' = MapPop(user_names, uid)
  /\ carts' = MapSet(carts, uid, <<>>)
  /\ user_data' = [user_data EXCEPT ![uid] = EmptyMap]
  /\ user_states' = MapSet(user_states, uid, STATE_WAITING_NAME)
  /\ out' = Msg(uid, "restarted", 0)
  /\ UNCHANGED SALES

handle_navigation(uid, action) ==
  IF action = "back_to_menu"
    THEN IF MapGet(user_names, uid, <<>>) # <<>>
           THEN /\ user_states' = MapSet(user_states, uid, STATE_MENU)
                /\ out' = Msg(uid, "menu", 0)
                /\ UNCHANGED << SALES, carts, user_names, user_data >>
           ELSE handle_restart(uid)
  ELSE IF action = "back_to_payment"
    THEN /\ user_states' = MapSet(user_states, uid, STATE_SELECTING_PAYMENT)
         /\ out' = Msg(uid, "checkout", MapGet(user_data[uid], "total", 0))
         /\ UNCHANGED << SALES, carts, user_names, user_data >>
  ELSE out' = Msg(uid, "none", 0) /\ Quiet

\* handle_new_customer that leaves the state as it is.
handle_new_customer_KeepsState(uid) ==
  /\ user_names' = MapPop(user_names, uid)
  /\ carts' = MapSet(carts, uid, <<>>)
  /\ user_data' = [user_data EXCEPT ![uid] = EmptyMap]
  /\ out' = Msg(uid, "new_customer", 0)
  /\ UNCHANGED << SALES, user_states >>

handle_new_customer(uid) ==
  /\ user_names' = MapPop(user_names, uid)
  /\ carts' = MapSet(carts, uid, <<>>)
  /\ user_data' = [user_data EXCEPT ![uid] = EmptyMap]
  /\ user_states' = MapSet(user_states, uid, STATE_WAITING_NAME)
  /\ out' = Msg(uid, "new_customer", 0)
  /\ UNCHANGED SALES

handle_admin_panel(uid) ==
  /\ out' = IF ~is_admin(uid) THEN Msg(uid, "denied", 0)
                              ELSE Msg(uid, "admin_panel", 0)
  /\ Quiet

\* ------------------------------------------------------------------- admin
RECURSIVE SumTotals(_, _)
SumTotals(sales, methods) ==
  IF sales = <<>> THEN 0
  ELSE (IF Head(sales).payment_method \in methods THEN Head(sales).total ELSE 0)
       + SumTotals(Tail(sales), methods)

PaymentMethods == {SALES[i].payment_method : i \in 1..Len(SALES)}

total_revenue == SumTotals(SALES, PaymentMethods)

cash_total == SumTotals(SALES, {"Cash"})

\* qris_total that adds up every sale.
qris_total_EverySale == SumTotals(SALES, PaymentMethods)

\* the else branch: every sale whose method is not "Cash".
qris_total == SumTotals(SALES, PaymentMethods \ {"Cash"})

\* item_summary[item] += qty, a defaultdict(int) in first-seen order.
RECURSIVE AddItems(_, _)
AddItems(summary, items) ==
  IF items = <<>> THEN summary
  ELSE AddItems(DictSet(summary, Head(items)[1],
                        DictGet(summary, Head(items)[1], 0) + Head(items)[2]),
                Tail(items))

RECURSIVE item_summary(_)
item_summary(sales) ==
  IF sales = <<>> THEN <<>>
  ELSE AddItems(item_summary(SubSeq(sales, 1, Len(sales) - 1)),
                sales[Len(sales)].items)

\* one line per summary entry whose item is on the menu: item, qty, amount.
item_lines ==
  LET summary == item_summary(SALES)
  IN  SelectSeq([i \in 1..Len(summary) |->
                   << summary[i][1], summary[i][2],
                      IF summary[i][1] \in DOMAIN MENU
                        THEN MENU[summary[i][1]] * summary[i][2] ELSE 0 >>],
                LAMBDA line : line[1] \in DOMAIN MENU)

show_sales_report(uid) ==
  /\ out' = IF SALES = <<>>
              THEN Msg(uid, "report_empty", 0)
              ELSE Msg(uid, "report", [ item_lines |-> item_lines,
                                        transactions |-> Len(SALES),
                                        cash_total |-> cash_total,
                                        qris_total |-> qris_total,
                                        total_revenue |-> total_revenue ])
  /\ Quiet

\* reset_all_data that clears the ledger only.
reset_all_data_LedgerOnly(uid) ==
  /\ SALES' = <<>>
  /\ out' = Msg(uid, "reset_done", 0)
  /\ UNCHANGED << carts, user_names, user_states, user_data >>

reset_all_data(uid) ==
  /\ SALES' = <<>>
  /\ carts' = EmptyMap
  /\ user_names' = EmptyMap
  /\ user_states' = EmptyMap
  /\ out' = Msg(uid, "reset_done", 0)
  /\ UNCHANGED user_data

handle_admin_callbacks(uid, action) ==
  IF ~is_admin(uid)
    THEN out' = Msg(uid, "denied", 0) /\ Quiet
  ELSE IF action = "adm_rekap" THEN show_sales_report(uid)
  ELSE IF action = "adm_reset" THEN reset_all_data(uid)
  ELSE out' = Msg(uid, "none", 0) /\ Quiet

\* A button payload is <<head, rest>>: the text up to the first "_" and the
\* text after it ("" when the payload has no "_").
Payload(head, rest) == << head, rest >>

handle_callback_query(uid, data) ==
  IF ~is_authorized(uid)
    THEN out' = Msg(uid, "denied", 0) /\ Quiet
  ELSE IF data[1] = "item" /\ data[2] # ""
    THEN handle_item_selection(uid, data[2])
  ELSE IF data[1] \in {"inc", "dec"} /\ data[2] # ""
    THEN handle_quantity_change(uid, data[1], data[2])
  ELSE IF data[1] = "adm" /\ data[2] # ""
    THEN handle_admin_callbacks(uid, IF data[2] = "rekap" THEN "adm_rekap"
                                     ELSE IF data[2] = "reset" THEN "adm_reset"
                                     ELSE "adm_other")
  ELSE IF data = Payload("checkout", "")
    THEN handle_checkout(uid)
  ELSE IF data[1] = "pay" /\ data[2] # ""
    THEN handle_payment_method(uid, data[2])
  ELSE IF data = Payload("qris", "done")
    THEN handle_qris_completion(uid)
  ELSE IF data[1] = "back" /\ data[2] # ""
    THEN handle_navigation(uid, IF data[2] = "to_menu" THEN "back_to_menu"
                                ELSE IF data[2] = "to_payment" THEN "back_to_payment"
                                ELSE "back_other")
  ELSE IF data = Payload("new", "customer")
    THEN handle_new_customer(uid)
  ELSE IF data = Payload("admin", "")
    THEN handle_admin_panel(uid)
  ELSE IF data = Payload("restart", "")
    THEN handle_restart(uid)
  ELSE out' = Msg(uid, "unknown_command", 0) /\ Quiet

\* ------------------------------------------------------------------ inputs
Items == {MenuKeys[i] : i \in 1..NumItems}

\* Item names a payload may carry: the clickable items and one unlisted name.
ItemArgs == Items \cup {"Unlisted"}

TxtX == <<"x">>
TxtFive == <<"5">>
TxtRp30k == <<"R","p"," ","3","0",".","0","0","0">>

\* The text lines sent: too short for a name and not a number; too short for
\* a name and below every total; a valid name that is also an amount above
\* every total the bounds allow.
Texts == {TxtX, TxtFive, TxtRp30k}

\* The users who send ordering events.  Under Spec the admin only operates
\* the admin panel, so one cashier session is explored in full.
Clerks == Users \ ADMIN_IDS

\* The bounds on the events issued: ledger length and cart quantities.
WithinBounds ==
  /\ Len(SALES') <= MaxSales
  /\ \A u \in DOMAIN carts' :
       \A i \in 1..Len(carts'[u]) : carts'[u][i][2] <= MaxQty

\* A handler that runs to its end without another handler in between: its
\* send or edit succeeds or fails (safe_edit_message and safe_reply return
\* False, no caller reads the result), and nothing stays suspended.
Completed ==
  /\ delivered' \in BOOLEAN
  /\ UNCHANGED << inflight, bot >>

\* ------------------------------------------------------------------ events
Start(U) == \E uid \in U :
              /\ cmd_start(uid)
              /\ WithinBounds
              /\ Completed

Admin(U) == \E uid \in U :
              /\ cmd_admin(uid)
              /\ WithinBounds
              /\ Completed

Text(U, T) == \E uid \in U, text \in T :
                /\ handle_text_input(uid, text)
                /\ WithinBounds
                /\ Completed

ClickItem(U) == \E uid \in U, item \in ItemArgs :
                  /\ handle_callback_query(uid, Payload("item", item))
                  /\ WithinBounds
                  /\ Completed

ClickInc(U) == \E uid \in U, item \in ItemArgs :
                 /\ handle_callback_query(uid, Payload("inc", item))
                 /\ WithinBounds
                 /\ Completed

ClickDec(U) == \E uid \in U, item \in ItemArgs :
                 /\ handle_callback_query(uid, Payload("dec", item))
                 /\ WithinBounds
                 /\ Completed

ClickCheckout(U) == \E uid \in U :
                      /\ handle_callback_query(uid, Payload("checkout", ""))
                      /\ WithinBounds
                      /\ Completed

ClickPay(U) == \E uid \in U, method \in {"cash", "qris"} :
                 /\ handle_callback_query(uid, Payload("pay", method))
                 /\ WithinBounds
                 /\ Completed

ClickQrisDone(U) == \E uid \in U :
                      /\ handle_callback_query(uid, Payload("qris", "done"))
                      /\ WithinBounds
                      /\ Completed

ClickBack(U) == \E uid \in U, to \in {"to_menu", "to_payment"} :
                  /\ handle_callback_query(uid, Payload("back", to))
                  /\ WithinBounds
                  /\ Completed

ClickNewCustomer(U) == \E uid \in U :
                         /\ handle_callback_query(uid, Payload("new", "customer"))
                         /\ WithinBounds
                         /\ Completed

ClickAdmin(U) == \E uid \in U :
                   /\ handle_callback_query(uid, Payload("admin", ""))
                   /\ WithinBounds
                   /\ Completed

ClickRestart(U) == \E uid \in U :
                     /\ handle_callback_query(uid, Payload("restart", ""))
                     /\ WithinBounds
                     /\ Completed

ClickReport(U) == \E uid \in U :
                    /\ handle_callback_query(uid, Payload("adm", "rekap"))
                    /\ WithinBounds
                    /\ Completed

ClickReset(U) == \E uid \in U :
                   /\ handle_callback_query(uid, Payload("adm", "reset"))
                   /\ WithinBounds
                   /\ Completed

ClickOther(U) == \E uid \in U,
                    data \in {Payload("adm", "other"), Payload("pay", "other"),
                              Payload("back", "other"), Payload("other", "")} :
                   /\ handle_callback_query(uid, data)
                   /\ WithinBounds
                   /\ Completed

Next ==
  \/ Start(Clerks)
  \/ Admin(Users)
  \/ Text(Clerks, Texts)
  \/ ClickItem(Clerks)
  \/ ClickInc(Clerks)
  \/ ClickDec(Clerks)
  \/ ClickCheckout(Clerks)
  \/ ClickPay(Clerks)
  \/ ClickQrisDone(Clerks)
  \/ ClickBack(Clerks)
  \/ ClickNewCustomer(Clerks)
  \/ ClickAdmin(Users)
  \/ ClickRestart(Clerks)
  \/ ClickReport(Users)
  \/ ClickReset(Users)
  \/ ClickOther(Clerks)

Spec == Init /\ [][Next]_vars

\* ------------------------------------------------- a ledger of two sales
\* The ledger bound and the quantity bound of SpecLedger.
LedgerMax == 2
LedgerQty == 1

\* Any one event of a user: a command, a text line or a button payload.
Event(uid, T, P) ==
  \/ cmd_start(uid)
  \/ cmd_admin(uid)
  \/ \E text \in T : handle_text_input(uid, text)
  \/ \E data \in P : handle_callback_query(uid, data)

CashierPayloads ==
  {Payload(h, item) : h \in {"item", "inc", "dec"}, item \in Items}
    \cup {Payload("checkout", ""), Payload("pay", "cash"), Payload("pay", "qris"),
          Payload("qris", "done"), Payload("back", "to_menu"),
          Payload("back", "to_payment"), Payload("new", "customer"),
          Payload("restart", "")}

AdminPayloads ==
  {Payload("admin", ""), Payload("adm", "rekap"), Payload("adm", "reset")}

LedgerBounds ==
  /\ Len(SALES') <= LedgerMax
  /\ \A u \in DOMAIN carts' :
       \A i \in 1..Len(carts'[u]) : carts'[u][i][2] <= LedgerQty

\* The cashier serves customers, the admin reads and resets the ledger.
LedgerNext ==
  \/ \E uid \in USER_IDS :
       /\ Event(uid, {TxtFive, TxtRp30k}, CashierPayloads)
       /\ LedgerBounds
       /\ Completed
  \/ \E uid \in ADMIN_IDS, data \in AdminPayloads :
       /\ handle_callback_query(uid, data)
       /\ LedgerBounds
       /\ Completed

SpecLedger == Init /\ [][LedgerNext]_vars

\* ------------------------------------------------------- customer names
\* The limits of handle_customer_name_input.
MinNameLen == 2
MaxNameLen == 50

Letters(n, c) == [i \in 1..n |-> c]

\* Text lines around the two limits, bare and with blanks around them.
NameTexts ==
  { Letters(MinNameLen - 1, "a"), Letters(MinNameLen, "a"),
    Letters(MaxNameLen, "n"), Letters(MaxNameLen + 1, "n"),
    Letters(MinNameLen - 1, "a") \o <<" ">>,
    <<" ">> \o Letters(MaxNameLen, "n") \o <<" ">> }

NameNext ==
  \E uid \in USER_IDS :
    /\ Event(uid, NameTexts, CashierPayloads)
    /\ LedgerBounds
    /\ Completed

SpecName == Init /\ [][NameNext]_vars

\* ------------------------------------------- handlers that interleave
\* Every handler changes the collections before its first await that
\* suspends (save_transaction and reset_all_data hold no await before their
\* last assignment; awaiting save_transaction itself does not suspend).  A
\* handler is therefore two steps: the part up to the send or edit, and the
\* completion of that send or edit.  Handlers of one user do not overlap.
AsyncBegin(uid, T, P) ==
  /\ uid \notin DOMAIN inflight
  /\ Event(uid, T, P)
  /\ inflight' = MapSet(inflight, uid, out')
  /\ UNCHANGED << delivered, bot >>

AsyncFinish(uid) ==
  /\ uid \in DOMAIN inflight
  /\ inflight' = MapPop(inflight, uid)
  /\ delivered' \in BOOLEAN
  /\ UNCHANGED << SALES, carts, user_names, user_states, user_data, out, bot >>

AsyncNext ==
  \/ \E uid \in USER_IDS :
       AsyncBegin(uid, {TxtFive, TxtRp30k}, CashierPayloads) /\ WithinBounds
  \/ \E uid \in ADMIN_IDS :
       AsyncBegin(uid, {}, AdminPayloads) /\ WithinBounds
  \/ \E uid \in Users : AsyncFinish(uid)

SpecAsync == Init /\ [][AsyncNext]_vars

\* ------------------------------------------------- two users at work
\* The admin and the cashier both serve customers, one event at a time.
PairSales == 1
PairQty == 1

PairBounds ==
  /\ Len(SALES') <= PairSales
  /\ \A u \in DOMAIN carts' :
       \A i \in 1..Len(carts'[u]) : carts'[u][i][2] <= PairQty

PairTexts == {TxtRp30k}

PairPayloads == CashierPayloads \cup AdminPayloads

\* The buttons of one sale from the first item to the receipt, and restart.
SalePayloads ==
  {Payload("inc", item) : item \in Items}
    \cup {Payload("checkout", ""), Payload("pay", "cash"), Payload("pay", "qris"),
          Payload("qris", "done"), Payload("restart", "")}

PairNext ==
  \/ \E uid \in ADMIN_IDS :
       /\ Event(uid, PairTexts, PairPayloads)
       /\ PairBounds
       /\ Completed
  \/ \E uid \in USER_IDS :
       /\ Event(uid, PairTexts, SalePayloads)
       /\ PairBounds
       /\ Completed

SpecPair == Init /\ [][PairNext]_vars

\* ------------------------------------------- a report over two items
\* The cashier sells the first ReportItems menu items by QRIS in any order,
\* the admin reads the report.
ReportNumItems == 2
ReportSales == 2
ReportQty == 1

ReportItems == {MenuKeys[i] : i \in 1..ReportNumItems}

ReportBounds ==
  /\ Len(SALES') <= ReportSales
  /\ \A u \in DOMAIN carts' :
       \A i \in 1..Len(carts'[u]) : carts'[u][i][2] <= ReportQty

ReportPayloads ==
  {Payload("inc", item) : item \in ReportItems}
    \cup {Payload("checkout", ""), Payload("qris", "done")}

ReportNext ==
  \/ \E uid \in USER_IDS, data \in ReportPayloads :
       /\ handle_callback_query(uid, data)
       /\ ReportBounds
       /\ Completed
  \/ \E uid \in ADMIN_IDS :
       /\ handle_callback_query(uid, Payload("adm", "rekap"))
       /\ ReportBounds
       /\ Completed

SpecReport == Init /\ [][ReportNext]_vars

\* ------------------------------------------------- the numeric parser
\* clean_numeric_input applied to one typed line.
ParseLen == 3

ParseChars == {"R", "p", "r", "2", "0", ".", " "}

RECURSIVE Lines(_)
Lines(n) ==
  IF n = 0 THEN {<<>>}
  ELSE Lines(n - 1)
         \cup {Append(t, c) : t \in {l \in Lines(n - 1) : Len(l) = n - 1},
                              c \in ParseChars}

\* Every line of up to ParseLen characters, and amounts as a cashier types
\* them, the longest with 9, 10 and 11 digits.
ParseTexts ==
  Lines(ParseLen)
    \cup { <<"2","0",".","0","0","0">>,
           <<"R","p"," ","2","0","0","0","0">>,
           <<"r","p"," ","2","0","0","0","0">>,
           <<"a","b","c">>,
           <<"1","2","3","4","5","6","7","8","9">>,
           <<"1","0","0","0","0","0","0","0","0","0">>,
           <<"9","9","9","9","9","9","9","9","9","9","9">> }

InitParse ==
  /\ SALES = <<>>
  /\ carts = EmptyMap
  /\ user_names = EmptyMap
  /\ user_states = EmptyMap
  /\ user_data = [u \in Users |-> EmptyMap]
  /\ \E text \in ParseTexts : out = Msg(0, "typed", text)
  /\ delivered = TRUE
  /\ inflight = EmptyMap
  /\ bot = BotRunning

Parse ==
  /\ out.kind = "typed"
  /\ out' = Msg(0, "parsed", [ text |-> out.val,
                               amount |-> clean_numeric_input(out.val) ])
  /\ Quiet
  /\ UNCHANGED << delivered, inflight, bot >>

SpecParse == InitParse /\ [][Parse]_vars

\* ------------------------------------------------------- the retry loop
\* run_bot_with_retry: bot.pc is the position in the loop, bot.attempt the
\* loop variable, bot.started the number of iterations begun, bot.waited the
\* seconds slept, bot.app whether the local name app is bound, bot.stage the
\* call an error came from, bot.after where the finally block leads.
max_retries == 5
retry_delay == 15

Stages == << "initialize", "start", "start_polling", "running" >>

StageAfter(stage) == Stages[(CHOOSE i \in 1..3 : Stages[i] = stage) + 1]

\* errors of the first except clause, and of the last one.
Errors == {"network", "unexpected"}

InitRetry ==
  /\ SALES = <<>>
  /\ carts = EmptyMap
  /\ user_names = EmptyMap
  /\ user_states = EmptyMap
  /\ user_data = [u \in Users |-> EmptyMap]
  /\ out = Msg(0, "none", 0)
  /\ delivered = TRUE
  /\ inflight = EmptyMap
  /\ bot = [pc |-> "loop", attempt |-> 0, started |-> 0, waited |-> 0,
            app |-> FALSE, stage |-> "none", error |-> "none",
            after |-> "none"]

Idle == UNCHANGED << SALES, carts, user_names, user_states, user_data, out,
                     delivered, inflight >>

\* for attempt in range(max_retries)
NextAttempt ==
  /\ bot.pc = "loop"
  /\ bot' = IF bot.started < max_retries
              THEN [bot EXCEPT !.pc = "create", !.attempt = bot.started,
                               !.started = @ + 1, !.stage = "none",
                               !.error = "none", !.after = "none"]
              ELSE [bot EXCEPT !.pc = "done"]
  /\ Idle

\* app = create_application(); if not app: return
Create ==
  /\ bot.pc = "create"
  /\ \/ bot' = [bot EXCEPT !.pc = "initialize", !.app = TRUE]
     \/ bot' = [bot EXCEPT !.pc = "cleanup", !.app = TRUE, !.stage = "create",
                           !.after = "done"]
  /\ Idle

\* await app.initialize(); await app.start(); await app.updater.start_polling()
StartUp ==
  /\ bot.pc \in {"initialize", "start", "start_polling"}
  /\ \/ bot' = [bot EXCEPT !.pc = StageAfter(bot.pc)]
     \/ \E e \in Errors :
          bot' = [bot EXCEPT !.pc = "except", !.stage = bot.pc, !.error = e]
  /\ Idle

\* the retry test of both except clauses that retry.
may_retry_Always(attempt) == attempt < max_retries

may_retry(attempt) == attempt < max_retries - 1

\* except ...: sleep and continue, or break
Except ==
  /\ bot.pc = "except"
  /\ bot' = IF may_retry(bot.attempt)
              THEN [bot EXCEPT !.pc = "sleep", !.after = "loop"]
              ELSE [bot EXCEPT !.pc = "cleanup", !.after = "done"]
  /\ Idle

\* await asyncio.sleep(retry_delay); continue
Sleep ==
  /\ bot.pc = "sleep"
  /\ bot' = [bot EXCEPT !.pc = "cleanup", !.waited = @ + retry_delay]
  /\ Idle

\* KeyboardInterrupt, or the cancellation asyncio.run turns it into, while
\* the coroutine waits: the finally block runs and the loop is left.
Interrupt ==
  /\ bot.pc \in {"initialize", "start", "start_polling", "running", "sleep"}
  /\ bot' = [bot EXCEPT !.pc = "cleanup", !.stage = bot.pc,
                        !.error = "interrupt", !.after = "done"]
  /\ Idle

\* finally: stop and shut down whatever app holds; errors are logged only.
Cleanup ==
  /\ bot.pc = "cleanup"
  /\ bot' = [bot EXCEPT !.pc = bot.after]
  /\ Idle

RetrySteps == NextAttempt \/ Create \/ StartUp \/ Except \/ Sleep \/ Cleanup

RetryNext == RetrySteps \/ Interrupt

\* Every call returns or raises; an interrupt may never come.
SpecRetry == InitRetry /\ [][RetryNext]_vars /\ WF_vars(RetrySteps)

\* ------------------------------------------------------------------ claims
Authorized == ADMIN_IDS \cup USER_IDS

CartOf(uid) == MapGet(carts, uid, <<>>)

\* The cached pending total of a user; 0 when none is cached.
PendingTotal(uid) == MapGet(user_data[uid], "total", 0)

StateOf(uid) == MapGet(user_states, uid, "absent")

\* C1: every ledger entry's total is the sum of menu price x quantity over
\* the entry's own item snapshot.
C1_LedgerTotalMatchesSnapshot ==
  \A i \in 1..Len(SALES) : SALES[i].total = get_cart_total(SALES[i].items)

\* C2: no cart holds an entry whose quantity is <= 0.
C2_NoNonPositiveQuantity ==
  \A u \in DOMAIN carts :
    \A i \in 1..Len(carts[u]) : carts[u][i][2] >= 1

\* C3: a checkout event issued while the cart holds no item with quantity
\* >= 1 leaves view, pending total and ledger unchanged and does not render
\* the checkout summary.
C3_EmptyCheckoutFails ==
  [][\A uid \in Authorized :
       ( /\ handle_callback_query(uid, Payload("checkout", ""))
         /\ \A i \in 1..Len(CartOf(uid)) : CartOf(uid)[i][2] < 1 )
       => /\ UNCHANGED << user_states, user_data, SALES >>
          /\ out'.kind # "checkout"]_vars

\* C4: a text in WaitingCash whose parsed amount is >= the pending total
\* appends exactly one transaction (method Cash, total = pending total,
\* items = the cart at that moment) and reports change = amount - total >= 0.
C4_SufficientCashFinalizes ==
  [][\A uid \in Authorized, text \in Texts :
       ( /\ handle_text_input(uid, text)
         /\ StateOf(uid) = STATE_WAITING_CASH
         /\ clean_numeric_input(Strip(text)) # None
         /\ clean_numeric_input(Strip(text)) >= PendingTotal(uid) )
       => /\ Len(SALES') = Len(SALES) + 1
          /\ SubSeq(SALES', 1, Len(SALES)) = SALES
          /\ SALES'[Len(SALES')].payment_method = "Cash"
          /\ SALES'[Len(SALES')].total = PendingTotal(uid)
          /\ SALES'[Len(SALES')].user_id = uid
          /\ DictEq(SALES'[Len(SALES')].items, CartOf(uid))
          /\ out'.kind = "receipt_cash"
          /\ out'.val = clean_numeric_input(Strip(text)) - PendingTotal(uid)
          /\ out'.val >= 0]_vars

\* C4 witness: a cash receipt with change was issued for a recorded sale.
C4_Witness ==
  /\ out.kind = "receipt_cash"
  /\ out.val > 0
  /\ SALES # <<>>
  /\ SALES[Len(SALES)].payment_method = "Cash"
  /\ SALES[Len(SALES)].items # <<>>

\* C5: a text in WaitingCash that does not parse, or parses below the
\* pending total, leaves the user in WaitingCash with cart, pending total
\* and ledger unchanged; the shortage reported is total - amount; the user
\* is left where a sufficient amount finalizes (state WaitingCash, the same
\* positive pending total).
C5_InsufficientCashStays ==
  [][\A uid \in Authorized, text \in Texts :
       ( /\ handle_text_input(uid, text)
         /\ StateOf(uid) = STATE_WAITING_CASH
         /\ \/ clean_numeric_input(Strip(text)) = None
            \/ clean_numeric_input(Strip(text)) < PendingTotal(uid) )
       => /\ UNCHANGED << user_states, carts, user_names, user_data, SALES >>
          /\ StateOf(uid)' = STATE_WAITING_CASH
          /\ PendingTotal(uid)' = PendingTotal(uid)
          /\ PendingTotal(uid)' > 0
          /\ clean_numeric_input(Strip(text)) # None
               => /\ out'.kind = "shortage"
                  /\ out'.val = PendingTotal(uid) - clean_numeric_input(Strip(text))
          /\ clean_numeric_input(Strip(text)) = None
               => out'.kind = "format_invalid"]_vars

\* C5 witness: a shortage was reported and the user is still in WaitingCash.
C5_Witness ==
  /\ out.kind = "shortage"
  /\ out.val > 0
  /\ StateOf(out.uid) = STATE_WAITING_CASH
  /\ CartOf(out.uid) # <<>>

\* C6: right after a finalization (a receipt was issued) the finalizing
\* user's cart and cached pending total are both cleared.
C6_FinalizeClearsCartAndTotal ==
  out.kind \in {"receipt_cash", "receipt_qris"}
    => /\ CartOf(out.uid) = <<>>
       /\ "total" \notin DOMAIN user_data[out.uid]

\* C7: an event from a user in neither allow-list changes no session and
\* not the ledger.
C7_UnauthorizedChangesNothing ==
  [][out'.uid \notin ADMIN_IDS \cup USER_IDS
       => UNCHANGED << SALES, carts, user_names, user_states, user_data >>]_vars

\* C7 witness: the outsider was turned away while a session and a sale exist.
C7_Witness ==
  /\ out.uid \in Users \ (ADMIN_IDS \cup USER_IDS)
  /\ out.kind = "denied"
  /\ SALES # <<>>
  /\ user_states # EmptyMap

\* C8: every event of a user in neither allow-list is answered with the
\* access-denied notice.
C8_UnauthorizedAlwaysDenied ==
  out.uid \in Users \ (ADMIN_IDS \cup USER_IDS) => out.kind = "denied"

\* C9: no event of a non-admin clears or shortens the ledger, renders the
\* sales report or opens the admin panel.
C9_NonAdminNoAdminEffects ==
  [][out'.uid \notin ADMIN_IDS
       => /\ Len(SALES') >= Len(SALES)
          /\ SubSeq(SALES', 1, Len(SALES)) = SALES
          /\ out'.kind \notin {"admin_panel", "report", "report_empty",
                               "reset_done"}]_vars

\* C9 witness: the cashier was refused an admin feature while the ledger
\* held a sale.
C9_Witness ==
  /\ out.uid \in USER_IDS \ ADMIN_IDS
  /\ out.kind = "denied"
  /\ SALES # <<>>

\* C10 as stated: the reset empties the ledger and leaves every session
\* (view, customer name, cart, pending total) as it was.
C10_ResetChangesOnlyLedger ==
  [][out'.kind = "reset_done"
       => /\ SALES' = <<>>
          /\ UNCHANGED << carts, user_names, user_states, user_data >>]_vars

\* C10 amended: the reset empties the ledger and also clears every user's
\* cart, customer name and view; every pending total is left as it was.
C10_ResetClearsAllButTotals ==
  [][out'.kind = "reset_done"
       => /\ SALES' = <<>>
          /\ carts' = EmptyMap
          /\ user_names' = EmptyMap
          /\ user_states' = EmptyMap
          /\ user_data' = user_data]_vars

\* C10 witness: the reset was done while a user still had a pending total,
\* and that user's cart, name and view are gone.
C10_Witness ==
  /\ out.kind = "reset_done"
  /\ \E u \in Users : PendingTotal(u) > 0 /\ u \notin DOMAIN user_states
  /\ SALES = <<>>

\* C11: in every step other than an admin reset the new ledger is the old
\* one, or the old one with one entry appended at its end; no entry is
\* removed, reordered or altered, whatever happens to the cart it was
\* copied from.
C11_LedgerAppendOnly ==
  [][out'.kind # "reset_done"
       => \/ SALES' = SALES
          \/ /\ Len(SALES') = Len(SALES) + 1
             /\ SubSeq(SALES', 1, Len(SALES)) = SALES]_vars

\* C11 witness: two sales are recorded, the first with its items, and the
\* cart they were copied from has been filled again since.
C11_Witness ==
  /\ Len(SALES) = 2
  /\ SALES[1].items # <<>>
  /\ \E u \in USER_IDS : SALES[1].user_id = u /\ CartOf(u) # <<>>
  /\ out.kind # "reset_done"

\* C12: a /start of an authorized user leaves that user without customer
\* name, with an empty cart and without pending total.
C12_StartResetsSession ==
  out.kind = "welcome"
    => /\ out.uid \notin DOMAIN user_names
       /\ CartOf(out.uid) = <<>>
       /\ "total" \notin DOMAIN user_data[out.uid]

\* C13 as stated: in GettingName a text of length 2..50 sets the customer
\* name and moves to Menu; any other text leaves the user in GettingName with
\* customer name, cart and ledger unchanged.
C13_NameLengthRule ==
  [][\A uid \in Authorized, text \in NameTexts :
       ( /\ handle_text_input(uid, text)
         /\ StateOf(uid) = STATE_WAITING_NAME )
       => IF Len(text) >= MinNameLen /\ Len(text) <= MaxNameLen
            THEN /\ uid \in DOMAIN user_names'
                 /\ user_names'[uid] = Strip(text)
                 /\ StateOf(uid)' = STATE_MENU
            ELSE /\ StateOf(uid)' = STATE_WAITING_NAME
                 /\ UNCHANGED << user_names, carts, SALES >>]_vars

\* C13 amended: the length that counts is the length of the text after the
\* blanks around it are removed.
C13_TrimmedNameLengthRule ==
  [][\A uid \in Authorized, text \in NameTexts :
       ( /\ handle_text_input(uid, text)
         /\ StateOf(uid) = STATE_WAITING_NAME )
       => IF Len(Strip(text)) >= MinNameLen /\ Len(Strip(text)) <= MaxNameLen
            THEN /\ uid \in DOMAIN user_names'
                 /\ user_names'[uid] = Strip(text)
                 /\ StateOf(uid)' = STATE_MENU
            ELSE /\ StateOf(uid)' = STATE_WAITING_NAME
                 /\ UNCHANGED << user_names, carts, SALES >>]_vars

\* C13 witness: a name of exactly 50 characters was accepted.
C13_Witness ==
  /\ out.kind = "menu"
  /\ out.uid \in DOMAIN user_names
  /\ Len(user_names[out.uid]) = MaxNameLen
  /\ StateOf(out.uid) = STATE_MENU

\* C14: a button event (checkout, pay cash, new customer, restart, back)
\* whose message edit fails leaves SALES and every session as they were
\* before the event.
C14_FailedRenderKeepsState ==
  [][\A uid \in Authorized,
        data \in {Payload("checkout", ""), Payload("pay", "cash"),
                  Payload("new", "customer"), Payload("restart", ""),
                  Payload("back", "to_menu"), Payload("back", "to_payment")} :
       ( /\ handle_callback_query(uid, data)
         /\ ~delivered' )
       => UNCHANGED << SALES, carts, user_names, user_states, user_data >>]_vars

\* C15: when handlers of different users interleave, the ledger append and
\* the clearing of the finalizing user's cart are one step: no state has the
\* entry appended while a handler that issued a receipt still sees its
\* user's cart uncleared, and a reset clears the ledger, the carts, the
\* names and the states in one step, so it precedes or follows that step
\* as a whole.
Receipts == {"receipt_cash", "receipt_qris"}

C15_FinalizeAndResetAtomic ==
  /\ [][ /\ Len(SALES') > Len(SALES)
             => \E uid \in Users :
                  /\ SALES'[Len(SALES')].user_id = uid
                  /\ Len(SALES') = Len(SALES) + 1
                  /\ CartOf(uid)' = <<>>
                  /\ StateOf(uid)' = STATE_MENU
                  /\ out'.kind \in Receipts
                  /\ out'.uid = uid
         /\ out'.kind = "reset_done" /\ out' # out
             => /\ SALES' = <<>>
                /\ carts' = EmptyMap
                /\ user_names' = EmptyMap
                /\ user_states' = EmptyMap ]_vars
  /\ [](\A uid \in DOMAIN inflight :
          inflight[uid].kind \in Receipts => CartOf(uid) = <<>>)

\* A receipt is on its way to the cashier while the admin's handler is
\* suspended as well.
C15_Witness ==
  /\ DOMAIN inflight = ADMIN_IDS \cup USER_IDS
  /\ \E uid \in USER_IDS : inflight[uid].kind \in Receipts
  /\ \E uid \in ADMIN_IDS : inflight[uid].kind = "reset_done"

\* C16: the sales report changes neither the ledger nor any session; for an
\* empty ledger it says that there are no transactions, otherwise its total
\* revenue is the sum of all transaction totals and also the cash subtotal
\* plus the QRIS subtotal, each subtotal being the sum of the totals of the
\* transactions paid that way.
LedgerSum(paid) ==
  LET RECURSIVE upto(_)
      upto(n) == IF n = 0 THEN 0
                 ELSE upto(n - 1) + (IF paid[n] THEN SALES[n].total ELSE 0)
  IN  upto(Len(SALES))

C16_ReportIsPureAndAddsUp ==
  [][\A uid \in ADMIN_IDS :
       handle_callback_query(uid, Payload("adm", "rekap"))
       => /\ UNCHANGED << SALES, carts, user_names, user_states, user_data >>
          /\ out'.uid = uid
          /\ IF SALES = <<>>
               THEN out'.kind = "report_empty"
               ELSE /\ out'.kind = "report"
                    /\ out'.val.total_revenue
                         = LedgerSum([n \in 1..Len(SALES) |-> TRUE])
                    /\ out'.val.total_revenue
                         = out'.val.cash_total + out'.val.qris_total
                    /\ out'.val.cash_total
                         = LedgerSum([n \in 1..Len(SALES) |->
                                        SALES[n].payment_method = "Cash"])
                    /\ out'.val.qris_total
                         = LedgerSum([n \in 1..Len(SALES) |->
                                        SALES[n].payment_method = "QRIS"])]_vars

\* The report in front of the admin covers a cash sale and a QRIS sale.
C16_Witness ==
  /\ out.kind = "report"
  /\ out.uid \in ADMIN_IDS
  /\ \E i, j \in 1..Len(SALES) :
       SALES[i].payment_method = "Cash" /\ SALES[j].payment_method = "QRIS"
  /\ out.val.cash_total > 0
  /\ out.val.qris_total > 0

\* C17: a dec button for an item that has no entry in the user's cart leaves
\* the cart as it was (no entry is created, no quantity goes below zero),
\* changes neither the view nor the ledger, and the click is acknowledged.
C17_DecOfAbsentItemIsNoOp ==
  [][\A uid \in Authorized, item \in Items :
       ( /\ handle_callback_query(uid, Payload("dec", item))
         /\ item \notin DictKeys(CartOf(uid)) )
       => /\ DictEq(CartOf(uid)', CartOf(uid))
          /\ item \notin DictKeys(CartOf(uid)')
          /\ \A i \in 1..Len(CartOf(uid)') : CartOf(uid)'[i][2] >= 0
          /\ UNCHANGED << SALES, user_names, user_states, user_data >>
          /\ out' = Msg(uid, "ack", 0)]_vars

\* The cashier's dec click was acknowledged and the item is not in the cart.
C17_Witness ==
  /\ out = Msg(out.uid, "ack", 0)
  /\ out.uid \in Authorized
  /\ \E item \in Items : item \notin DictKeys(CartOf(out.uid))

\* C18: for every reachable cart of a user and every menu item, an inc
\* button followed at once by a dec button of that item gives back the same
\* cart, whatever the item's quantity was, 0 included.
C18_IncThenDecRestoresCart ==
  \A uid \in Authorized, item \in Items :
    DictEq(quantity_change(quantity_change(CartOf(uid), "inc", item),
                           "dec", item),
           CartOf(uid))

\* C19: the numeric parser returns the integer value of the input exactly
\* when, after removing ".", ",", blanks and the currency prefix "Rp" in
\* any letter case, the rest is non-empty, all digits and fewer than 10
\* digits long, and returns not-a-number otherwise.
RECURSIVE RemoveAnyCaseRp(_)
RemoveAnyCaseRp(s) ==
  IF Len(s) < 2 THEN s
  ELSE IF s[1] \in {"R", "r"} /\ s[2] \in {"P", "p"}
    THEN RemoveAnyCaseRp(SubSeq(s, 3, Len(s)))
  ELSE <<s[1]>> \o RemoveAnyCaseRp(Tail(s))

StatedAmount(text) ==
  LET rest == RemoveAnyCaseRp(SelectSeq(text, LAMBDA x : x \notin {".", ",", " "}))
  IN  IF rest # <<>> /\ (\A i \in 1..Len(rest) : rest[i] \in Digits) /\ Len(rest) < 10
        THEN ToInt(rest)
        ELSE None

C19_ParserAsStated ==
  out.kind = "parsed" => out.val.amount = StatedAmount(out.val.text)

\* C20: the retry loop is bounded: it starts at most 5 attempts, sleeps the
\* fixed delay only after an attempt that another attempt follows, and when
\* no attempt gets as far as polling it terminates.
C20_RetryLoopBounded ==
  /\ [](/\ bot.started <= max_retries
        /\ bot.pc = "sleep" => bot.started < max_retries
        /\ bot.waited <= retry_delay * (max_retries - 1)
        /\ bot.waited \in {retry_delay * (bot.started - 1),
                           retry_delay * bot.started, 0})
  /\ [][bot'.waited # bot.waited => bot'.waited = bot.waited + retry_delay]_vars
  /\ ([](bot.pc # "running")) => <>[](bot.pc = "done")

\* All five attempts failed with a network or an unexpected error and the
\* loop has ended after four delays.
C20_Witness ==
  /\ bot.pc = "done"
  /\ bot.started = max_retries
  /\ bot.error \in Errors
  /\ bot.waited = retry_delay * (max_retries - 1)

\* C21: a text from an authorized user whose state is neither waiting_name
\* nor waiting_cash changes nothing: state, name, cart, cached total and
\* ledger stay as they were, and only the hint is sent.
C21_TextElsewhereOnlyHints ==
  [][\A uid \in Authorized, text \in Texts :
       ( /\ handle_text_input(uid, text)
         /\ StateOf(uid) \notin {STATE_WAITING_NAME, STATE_WAITING_CASH} )
       => /\ UNCHANGED << SALES, carts, user_names, user_states, user_data >>
          /\ out' = Msg(uid, "hint", 0)]_vars

\* The hint went to a cashier who is choosing a payment method for a
\* non-empty cart.
C21_Witness ==
  /\ out = Msg(out.uid, "hint", 0)
  /\ out.uid \in Authorized
  /\ StateOf(out.uid) = STATE_SELECTING_PAYMENT
  /\ CartOf(out.uid) # <<>>
  /\ PendingTotal(out.uid) > 0

\* C22: a successful checkout leads to at most one ledger entry: when a
\* QRIS "payment done" button has just finalized a transaction, one more
\* "payment done" from the same user, with no checkout in between, appends
\* nothing to the ledger.
C22_SecondPaymentDoneAppendsNothing ==
  [][\A uid \in Authorized :
       ( /\ out = Msg(uid, "receipt_qris", 0)
         /\ handle_callback_query(uid, Payload("qris", "done")) )
       => SALES' = SALES]_vars

\* C23: except for an admin reset, an event of user A never changes user
\* B's session: B's cart, customer name, state and cached total are the same
\* after every command, text and button of A, for all A # B.
SessionOf(uid) ==
  [ cart  |-> IF uid \in DOMAIN carts THEN << carts[uid] >> ELSE <<>>,
    name  |-> IF uid \in DOMAIN user_names THEN << user_names[uid] >> ELSE <<>>,
    state |-> StateOf(uid),
    data  |-> user_data[uid] ]

\* Every handler answers the user whose event it handles, so out'.uid is the
\* user of the step, and "reset_done" is sent by reset_all_data alone.
C23_OtherSessionsUntouched ==
  [][\A a \in Users, b \in Users :
       ( /\ a # b
         /\ out'.uid = a
         /\ out'.kind # "reset_done" )
       => SessionOf(b)' = SessionOf(b)]_vars

\* One user restarted or got a receipt while the other one has a named
\* customer, a filled cart and a cached total.
C23_Witness ==
  \E a \in Authorized, b \in Authorized :
    /\ a # b
    /\ out.uid = a
    /\ out.kind \in {"restarted", "receipt_cash", "receipt_qris"}
    /\ b \in DOMAIN user_names
    /\ CartOf(b) # <<>>
    /\ PendingTotal(b) > 0

\* C24: in the sales report the quantity of each item is the sum of that
\* item's quantities over all ledger entries, and the item lines are sorted
\* by item name, whatever the order the items were sold in.
\* The place of a menu key in the ascending order of the keys as bot.py
\* writes them (each begins with its emoji).
NameRank(item) ==
  CHOOSE r \in 1..8 :
    << "Matcha Cloud", "Orange Matcha", "Strawberry Matcha", "Matcha Cookies",
       "Choco Matcha", "Honey Matcha", "Matcha OG", "Coconut Matcha" >>[r] = item

SoldQuantity(item) ==
  LET RECURSIVE upto(_)
      upto(n) == IF n = 0 THEN 0
                 ELSE upto(n - 1) + DictGet(SALES[n].items, item, 0)
  IN  upto(Len(SALES))

C24_ReportLinesSummedAndSorted ==
  [][\A uid \in ADMIN_IDS :
       ( /\ handle_callback_query(uid, Payload("adm", "rekap"))
         /\ SALES # <<>> )
       => LET lines == out'.val.item_lines
          IN  /\ \A i \in 1..Len(lines) : lines[i][2] = SoldQuantity(lines[i][1])
              /\ \A i, j \in 1..Len(lines) :
                   i < j => NameRank(lines[i][1]) < NameRank(lines[j][1])]_vars

\* C25: whenever a user's state is waiting_cash, that user's cached total is
\* present and above 0, so the cash input handler never takes its
\* "transaction data missing" branch.
C25_WaitingCashHasTotal ==
  /\ [](\A uid \in Users :
          StateOf(uid) = STATE_WAITING_CASH
          => /\ "total" \in DOMAIN user_data[uid]
             /\ user_data[uid]["total"] > 0)
  /\ [][\A uid \in Users, text \in Texts :
          handle_text_input(uid, text) => out'.kind # "data_missing"]_vars

\* The cash input handler went past the check of the cached total: it found
\* the amount short or not a number, and the user still is at the cash
\* prompt.
C25_Witness ==
  /\ out.kind \in {"shortage", "format_invalid"}
  /\ out.uid \in Authorized
  /\ StateOf(out.uid) = STATE_WAITING_CASH
  /\ PendingTotal(out.uid) > 0

\* C26: every ledger entry carries a customer name that passed the name
\* check (2 to 50 characters), never the placeholder "Tidak diketahui", and
\* a non-empty item snapshot.
C26_EntriesNamedAndFilled ==
  \A i \in 1..Len(SALES) :
    /\ SALES[i].customer_name # Unknown
    /\ Len(SALES[i].customer_name) >= MinNameLen
    /\ Len(SALES[i].customer_name) <= MaxNameLen
    /\ SALES[i].items # <<>>

====
